---- MODULE Spec2Model ----
(***************************************************************************)
(* A model of kaggletools: the greedy wrapper feature selectors and        *)
(* squash_rare of select_features.py, and the Ticket/Cabin rate fillers of *)
(* titanic.py.                                                             *)
(***************************************************************************)
EXTENDS Integers, Sequences, FiniteSets, TLC

(***************************************************************************)
(* Bounds of the model.                                                    *)
(***************************************************************************)
\* the mean test scores cross_validate can return are 0..MaxScore
MaxScore == 3
\* the longest starting_features list a caller passes
MaxStart == 2
\* the largest threshold a caller passes to squash_rare
MaxThreshold == 3
\* the largest number of columns of a matrix passed to SumDiffTransformer
MaxCols == 2

\* data.columns, in the table's column order
Columns == <<"A", "B", "C">>

VARIABLES
    \* ---- select_features.py: the two selectors
    score,              \* what cross_validate returned for each column set so far
    alg,                \* which selector the caller called
    start,              \* the starting_features argument
    pc,                 \* where the call stands
    selected_features,
    best_features,
    best_score,
    n,                  \* the outer loop's counter
    todo,               \* the candidates the inner loop has not visited yet
    seen,               \* history: the scores seen in the current round
    tie,                \* history: two candidates of one round scored the same
    prev,               \* history: the call made before this one, and its result
    target              \* the columns the target was built from, when known

selVars == <<score, alg, start, pc, selected_features, best_features,
             best_score, n, todo, seen, tie, prev, target>>

VARIABLES
    \* ---- titanic.py: TicketCounter and CabinCounter
    data,               \* the caller's table, a record of columns
    counter,            \* the counter object's constructor arguments
    rpc,                \* "new", "ready" (constructed), "filled", or an exception
    edited,             \* history: the row whose Survived the caller changed, or 0
    before,             \* history: the rate column before that change
    first               \* history: the table after the first of two calls

rateVars == <<data, counter, rpc, edited, before, first>>

VARIABLES
    \* ---- select_features.py: squash_rare
    frame,              \* the caller's table: the column colname and another one
    threshold,          \* the threshold argument
    rare_val,           \* the rare_val argument
    sqpc,               \* "call", "done", or an exception
    frame_old           \* history: the table as it was passed

sqVars == <<frame, threshold, rare_val, sqpc, frame_old>>

VARIABLES
    \* ---- titanic.py: extract_title
    names,              \* the Name column of the caller's table
    titles,             \* the titles argument
    tpc,                \* "call", "done", or an exception
    title,              \* the returned Series
    warned,             \* the experimental-feature warning was issued
    names_old           \* history: the Name column as it was passed

titleVars == <<names, titles, tpc, title, warned, names_old>>

VARIABLES
    \* ---- select_features.py: SumDiffTransformer
    X,                  \* the matrix passed to fit_transform, a list per row
    X_new,              \* the returned matrix
    sdpc                \* "call", "done", or an exception

sumVars == <<X, X_new, sdpc>>

VARIABLES
    \* ---- titanic.py: FamilyPredictor
    fdata,              \* the caller's table, a record of columns
    predictor,          \* the constructor arguments
    fpc                 \* "new", "ready" (constructed), "done", or an exception

famVars == <<fdata, predictor, fpc>>

vars == <<selVars, rateVars, sqVars, titleVars, sumVars, famVars>>

notSel == <<rateVars, sqVars, titleVars, sumVars, famVars>>
notRates == <<selVars, sqVars, titleVars, sumVars, famVars>>
notSquash == <<selVars, rateVars, titleVars, sumVars, famVars>>
notTitle == <<selVars, rateVars, sqVars, sumVars, famVars>>
notSum == <<selVars, rateVars, sqVars, titleVars, famVars>>
notFam == <<selVars, rateVars, sqVars, titleVars, sumVars>>

(***************************************************************************)
(* Helpers.                                                                *)
(***************************************************************************)
Range(s) == {s[i] : i \in 1..Len(s)}

Features == Range(Columns)

\* the lists without repetition that hold exactly the members of S
Perms(S) == {s \in [1..Cardinality(S) -> S] : Range(s) = S}

\* the lists without repetition over S of a length up to k
ListsUpTo(S, k) ==
    UNION {Perms(T) : T \in {U \in SUBSET S : Cardinality(U) <= k}}

\* the rows of the table (its index)
Rows == {1, 2, 3}

\* the values of the columns
Tickets == {"T1", "T2"}
Cabins == {"C1", "C2"}
Pclasses == {1, 2}

\* the rows and the categories of the table passed to squash_rare
SqRows == {1, 2, 3, 4}
Categories == {"x", "y"}

\* Python's None as the value of best_features
None == <<"None">>

\* Python's None as the value of best_score; a score r is held as <<r>>
NoScore == <<>>

\* the result of one cross_validate(...)['test_score'].mean():
\* a number, NaN (every fit failed and error_score is NaN), or an exception
Num(v) == [kind |-> "num", mean |-> v]
NaN == [kind |-> "nan", mean |-> 0]
Raised == [kind |-> "raise", mean |-> 0]

\* not yet evaluated
NotScored == <<>>

\* What cross_validate can return for the columns T: the selectors take
\* whatever it gives, for every column list alike. That is any mean score,
\* NaN (a fit or a scoring failed on some split and error_score is NaN), or
\* an exception, which the selectors do not catch.
CVOutcomes(T) == {Num(v) : v \in 0..MaxScore} \cup {NaN, Raised}

\* mutant: the splitter is not seeded, so a second evaluation of a column
\* set may score differently
CrossValidateUnseeded(T) == CVOutcomes(T)

\* The score is fixed by the data, the estimator and random_state=0: a column
\* set evaluated before gives the same result again.
CrossValidate(T) ==
    IF score[T] # NotScored THEN {score[T][1]} ELSE CVOutcomes(T)

Remember(T, r) == [score EXCEPT ![T] = <<r>>]

\* mutant: the comparison is the wrong way round
GtReversed(x, y) == x.kind = "num" /\ y.kind = "num" /\ x.mean < y.mean

\* x > y on floats: False when either is NaN
Gt(x, y) == x.kind = "num" /\ y.kind = "num" /\ x.mean > y.mean

\* mutant: the comparison with the best score is dropped
BetterFirstOnly(r, bs) == bs = NoScore

\* mutant: a candidate equal to the best score is accepted too
BetterOrEqual(r, bs) ==
    bs = NoScore \/ (r.kind = "num" /\ bs[1].kind = "num" /\ r.mean >= bs[1].mean)

\* `best_score is None or score > best_score`
Better(r, bs) == bs = NoScore \/ Gt(r, bs[1])

\* Python's truth value of best_features: None and [] are false
Truthy(l) == l # None /\ l # <<>>

\* the value of target for a table about which nothing is assumed
Unknown == {"?"}

NoCall == [alg |-> "none", start |-> <<>>, result |-> <<>>, tie |-> FALSE]

\* a column the table does not have yet
NoColumn == <<>>

(***************************************************************************)
(* The three parts of the library are independent: while one is exercised  *)
(* the variables of the other two stay as below.                           *)
(***************************************************************************)
\* no selector is called
SelectIdle ==
    /\ score = <<>> /\ alg = "none" /\ start = <<>> /\ pc = "idle"
    /\ selected_features = <<>> /\ best_features = None
    /\ best_score = NoScore /\ n = 0 /\ todo = {} /\ seen = {}
    /\ tie = FALSE /\ prev = NoCall /\ target = Unknown

\* no counter is built
RatesIdle ==
    /\ data = <<>> /\ counter = <<>> /\ rpc = "idle"
    /\ edited = 0 /\ before = NoColumn /\ first = NoColumn

\* no squash_rare call
SquashIdle ==
    /\ frame = <<>> /\ threshold = 0 /\ rare_val = "Rare" /\ sqpc = "idle"
    /\ frame_old = <<>>

\* no extract_title call
TitleIdle ==
    /\ names = <<>> /\ titles = None /\ tpc = "idle" /\ title = NoColumn
    /\ warned = FALSE /\ names_old = <<>>

\* no SumDiffTransformer
SumIdle == X = <<>> /\ X_new = <<>> /\ sdpc = "idle"

\* no FamilyPredictor
FamIdle == fdata = <<>> /\ predictor = <<>> /\ fpc = "idle"

OthersIdle == SumIdle /\ FamIdle

(***************************************************************************)
(* titanic.py: TicketCounter and CabinCounter.                             *)
(*                                                                         *)
(* Survived is "1", "0" or "NaN"; Cabin is a cabin or "NaN". A rate is a   *)
(* fraction <<numerator, denominator>> in lowest terms, and NaN is <<0,0>>.*)
(***************************************************************************)
RECURSIVE GCD(_, _)
GCD(a, b) == IF b = 0 THEN a ELSE GCD(b, a % b)

\* float(a) / float(b)
Frac(a, b) == IF b = 0 THEN <<0, 0>> ELSE <<a \div GCD(a, b), b \div GCD(a, b)>>

NaNRate == <<0, 0>>
One == Frac(1, 1)
Zero == Frac(0, 1)
Half == Frac(1, 2)

\* the caller passes no filler
NoFiller == <<>>

\* the filler columns a caller passes: the same value in every row, or a
\* value of its own for each row
Fillers == {[i \in Rows |-> Frac(1, 8)], [i \in Rows |-> Frac(i, 4)]}

\* Series.fillna(v) and the assignment of line 286: a NaN becomes v
FillNa(x, v) == IF x = NaNRate THEN v ELSE x

\* the number of rows of J with Survived == v
CountSurvived(d, J, v) == Cardinality({j \in J : d.Survived[j] = v})

\* Series.max() and Series.min() of Survived over the rows J: NaN is skipped,
\* and the result is NaN when no value is left
SurvivedMax(d, J) ==
    IF CountSurvived(d, J, "1") > 0 THEN "1"
    ELSE IF CountSurvived(d, J, "0") > 0 THEN "0" ELSE "NaN"

SurvivedMin(d, J) ==
    IF CountSurvived(d, J, "0") > 0 THEN "0"
    ELSE IF CountSurvived(d, J, "1") > 0 THEN "1" ELSE "NaN"

\* Series.mean() of Survived over the rows J, NaN skipped
SurvivedMean(d, J) ==
    Frac(CountSurvived(d, J, "1"),
         CountSurvived(d, J, "1") + CountSurvived(d, J, "0"))

\* data.loc[data.Pclass == c, "Survived"].mean()
ClassMean(d, c) == SurvivedMean(d, {j \in Rows : d.Pclass[j] = c})

\* the rows selected by (data.<key> == k) & (data.PassengerId != pid)
OtherRows(d, key, i) ==
    {j \in Rows : d[key][j] = d[key][i] /\ d.PassengerId[j] # d.PassengerId[i]}

\* mutant: fill_if_not_any_survived is not looked at
ShiftedRateAllSurvived(d, key, i) ==
    IF SurvivedMin(d, OtherRows(d, key, i)) = "1" THEN One
    ELSE IF SurvivedMax(d, OtherRows(d, key, i)) = "0" THEN Zero
    ELSE NaNRate

\* mutant: max() and min() the other way round
SimplifiedRateAnySurvived(d, key, i) ==
    IF SurvivedMax(d, OtherRows(d, key, i)) = "1" THEN One
    ELSE IF SurvivedMin(d, OtherRows(d, key, i)) = "0" THEN Zero
    ELSE NaNRate

\* lines 168-171: 1 if any other passenger of the group survived, 0 if none
\* did and one died
ShiftedRate(d, key, i) ==
    IF SurvivedMax(d, OtherRows(d, key, i)) = "1" THEN One
    ELSE IF SurvivedMin(d, OtherRows(d, key, i)) = "0" THEN Zero
    ELSE NaNRate

\* lines 173-176 and 273-276: 1 if all the others survived, 0 if all died
SimplifiedRate(d, key, i) ==
    IF SurvivedMin(d, OtherRows(d, key, i)) = "1" THEN One
    ELSE IF SurvivedMax(d, OtherRows(d, key, i)) = "0" THEN Zero
    ELSE NaNRate

\* mutant: the row's own survival is not taken off
OthersSurvivedWithSelf(d, key, i) ==
    CountSurvived(d, {j \in Rows : d[key][j] = d[key][i]}, "1")

\* mutant: the row's own death is not taken off
OthersDiedWithSelf(d, key, i) ==
    CountSurvived(d, {j \in Rows : d[key][j] = d[key][i]}, "0")

\* surv[k] and died[k] of lines 159-160 and 262-263, less the row's own
\* outcome (lines 178-183 and 278-283)
OthersSurvived(d, key, i) ==
    CountSurvived(d, {j \in Rows : d[key][j] = d[key][i]}, "1")
        - (IF d.Survived[i] = "1" THEN 1 ELSE 0)

OthersDied(d, key, i) ==
    CountSurvived(d, {j \in Rows : d[key][j] = d[key][i]}, "0")
        - (IF d.Survived[i] = "0" THEN 1 ELSE 0)

\* lines 184-185 and 284-285: float(s) / float(s + d) when s + d is not 0
MeanRate(d, key, i) ==
    Frac(OthersSurvived(d, key, i),
         OthersSurvived(d, key, i) + OthersDied(d, key, i))

\* mutant: the row itself is not counted
TicketCountsOthers(d) ==
    [i \in Rows |-> Cardinality({j \in Rows \ {i} : d.Ticket[j] = d.Ticket[i]})]

\* the TicketCount column, lines 157-161
TicketCounts(d) ==
    [i \in Rows |-> Cardinality({j \in Rows : d.Ticket[j] = d.Ticket[i]})]

\* the TicketRate column before the NaNs are filled, lines 162-185
TicketRatesRaw(d, c) ==
    [i \in Rows |->
        IF c.simplified
        THEN IF c.fill_if_not_any_survived
             THEN ShiftedRate(d, "Ticket", i)
             ELSE SimplifiedRate(d, "Ticket", i)
        ELSE MeanRate(d, "Ticket", i)]

\* mutant: the mean of the class fills the NaNs in simplified mode too
TicketFallbackClassMean(d, c, i) == ClassMean(d, d.Pclass[i])

\* the value that fills a NaN of TicketRate, lines 186-190: 0.5, or the mean
\* Survived of the rows of the row's Pclass
TicketFallback(d, c, i) ==
    IF c.simplified THEN Half ELSE ClassMean(d, d.Pclass[i])

\* the TicketRate column, lines 162-190
TicketRates(d, c) ==
    [i \in Rows |-> FillNa(TicketRatesRaw(d, c)[i], TicketFallback(d, c, i))]

\* mutant: a count is added to the CabinCount the table already holds
CabinCountsAccumulate(d) ==
    [i \in Rows |->
        (IF d.CabinCount = NoColumn THEN 0 ELSE d.CabinCount[i])
        + (IF d.Cabin[i] = "NaN" THEN 0
           ELSE Cardinality({j \in Rows : d.Cabin[j] = d.Cabin[i]}))]

\* the CabinCount column, lines 257-265: 0 for a row without a cabin
CabinCounts(d) ==
    [i \in Rows |->
        IF d.Cabin[i] = "NaN" THEN 0
        ELSE Cardinality({j \in Rows : d.Cabin[j] = d.Cabin[i]})]

\* the CabinRate column before the NaNs are filled, lines 266-285: the rows
\* without a cabin are skipped
CabinRatesRaw(d, c) ==
    [i \in Rows |->
        IF d.Cabin[i] = "NaN" THEN NaNRate
        ELSE IF c.simplified THEN SimplifiedRate(d, "Cabin", i)
        ELSE MeanRate(d, "Cabin", i)]

\* the CabinRate column, lines 266-286
CabinRates(d, c) ==
    [i \in Rows |-> FillNa(CabinRatesRaw(d, c)[i], c.filler[i])]

\* TicketCounter.__init__ (lines 145-147) stores its arguments.
\* CabinCounter.__init__ (lines 240-250) does too when the caller passes a
\* filler; without one it builds the default with pd.Series, and the module
\* imports numpy and warnings only (lines 17-18), so that the name pd is not
\* defined.
NewCounter ==
    /\ rpc = "new"
    /\ rpc' = IF counter.kind = "cabin" /\ counter.filler = NoFiller
              THEN "NameError" ELSE "ready"
    /\ UNCHANGED <<data, counter, edited, before, first>>
    /\ UNCHANGED notRates

\* TicketCounter.fill_ticket_rates, lines 149-190
FillTicketRates ==
    /\ rpc = "ready" /\ counter.kind = "ticket"
    /\ data' = [data EXCEPT !.TicketCount = TicketCounts(data),
                            !.TicketRate = TicketRates(data, counter)]
    /\ rpc' = "filled"
    /\ UNCHANGED <<counter, edited, before, first>>
    /\ UNCHANGED notRates

\* CabinCounter.fill_cabin_rates, lines 252-286
FillCabinRates ==
    /\ rpc = "ready" /\ counter.kind = "cabin"
    /\ data' = [data EXCEPT !.CabinCount = CabinCounts(data),
                            !.CabinRate = CabinRates(data, counter)]
    /\ rpc' = "filled"
    /\ UNCHANGED <<counter, edited, before, first>>
    /\ UNCHANGED notRates

\* the rate column the counter fills
RateColumn == IF counter.kind = "ticket" THEN data.TicketRate ELSE data.CabinRate

\* The caller changes the Survived value of one row r and nothing else, and
\* builds the counter again with the same arguments.
EditSurvived(r, v) ==
    /\ rpc = "filled" /\ edited = 0
    /\ v # data.Survived[r]
    /\ data' = [data EXCEPT !.Survived[r] = v]
    /\ edited' = r
    /\ before' = RateColumn
    /\ rpc' = "new"
    /\ UNCHANGED <<counter, first>>
    /\ UNCHANGED notRates

Counters ==
    {[kind |-> "ticket", simplified |-> s, fill_if_not_any_survived |-> a,
      filler |-> NoFiller] : s \in BOOLEAN, a \in BOOLEAN}
    \cup
    {[kind |-> "cabin", simplified |-> s, fill_if_not_any_survived |-> FALSE,
      filler |-> f] : s \in BOOLEAN, f \in Fillers \cup {NoFiller}}

\* A Titanic table as the constructors' docstrings describe it: PassengerId
\* unique, Ticket without NaN, Cabin and Survived with NaN. The column the
\* counter does not read holds one value.
RatesInit ==
    /\ counter \in Counters
    /\ \E t \in [Rows -> Tickets], c \in [Rows -> Cabins \cup {"NaN"}],
          p \in [Rows -> Pclasses], s \in [Rows -> {"0", "1", "NaN"}] :
          /\ (counter.kind = "ticket" => c = [i \in Rows |-> "NaN"])
          /\ (counter.kind = "cabin" => t = [i \in Rows |-> "T1"])
          /\ (counter.kind = "ticket" /\ counter.simplified =>
                 counter.fill_if_not_any_survived \in BOOLEAN)
          /\ data = [PassengerId |-> [i \in Rows |-> i], Ticket |-> t,
                     Cabin |-> c, Pclass |-> p, Survived |-> s,
                     TicketCount |-> NoColumn, TicketRate |-> NoColumn,
                     CabinCount |-> NoColumn, CabinRate |-> NoColumn]
    /\ rpc = "new"
    /\ edited = 0
    /\ before = NoColumn
    /\ first = NoColumn
    /\ SelectIdle /\ SquashIdle /\ TitleIdle /\ OthersIdle

\* The caller calls fill_ticket_rates or fill_cabin_rates a second time on
\* the same object, whose table now holds the columns of the first call.
CallAgain ==
    /\ rpc = "filled" /\ first = NoColumn
    /\ first' = data
    /\ rpc' = "ready"
    /\ UNCHANGED <<data, counter, edited, before>>
    /\ UNCHANGED notRates

\* two calls in a row
RefillNext ==
    \/ NewCounter
    \/ FillTicketRates
    \/ FillCabinRates
    \/ CallAgain

RatesNext ==
    \/ NewCounter
    \/ FillTicketRates
    \/ FillCabinRates
    \/ \E r \in Rows, v \in {"0", "1", "NaN"} : EditSurvived(r, v)

(***************************************************************************)
(* titanic.py: extract_title.                                              *)
(*                                                                         *)
(* A name is a list of words, each followed by a dot or not: "Smith, Mr.   *)
(* John" is Smith, Mr with a dot, John.                                    *)
(***************************************************************************)
Word(w) == [word |-> w, dot |-> FALSE]
Dotted(w) == [word |-> w, dot |-> TRUE]

\* the rows of the table passed to extract_title
TitleRows == {1, 2}

\* the words found before a dot in the names
TitleWords ==
    {"Mr", "Mrs", "Mme", "Miss", "Ms", "Mlle", "Master", "Dr", "Capt", "Major",
     "Col", "Sir", "Count", "Countess", "Don"}

\* the names of the table: one title, no title at all, two dotted words
Names ==
    {<<Word("Smith"), Dotted(w), Word("John")>> : w \in TitleWords}
    \cup {<<Word("Smith"), Word("John")>>,
          <<Word("Jones"), Dotted("Mrs"), Dotted("Dr")>>}

\* the default of the titles argument, line 67
DefaultTitles == <<"Mr", "Mrs", "Miss", "Master", "Rare">>

\* the lists that hold some of the members of l, in the order of l
RECURSIVE SubLists(_)
SubLists(l) ==
    IF l = <<>> THEN {<<>>}
    ELSE LET rest == SubLists(Tail(l))
         IN  rest \cup {<<Head(l)>> \o r : r \in rest}

\* the titles lists a caller passes: any choice of the eight categories in
\* one of two orders, and a list that names categories twice
TitleLists ==
    SubLists(<<"Mr", "Mrs", "Miss", "Master", "Dr", "Royal", "Military", "Rare">>)
    \cup SubLists(<<"Rare", "Military", "Dr", "Master", "Miss", "Mrs", "Mr", "Royal">>)
    \cup {<<"Rare", "Mr", "Mrs", "Miss", "Master", "Rare", "Mr">>}

\* Series.str.extract("([A-Za-z]+)\\.", expand=False), line 89: the first word
\* followed by a dot, NaN when there is none
RECURSIVE Extract(_)
Extract(name) ==
    IF name = <<>> THEN "NaN"
    ELSE IF Head(name).dot THEN Head(name).word
    ELSE Extract(Tail(name))

\* list.index(x), from 0: the first position of x
Index(l, x) == (CHOOSE i \in 1..Len(l) :
                   l[i] = x /\ \A j \in 1..(i - 1) : l[j] # x) - 1

\* mutant: only a list without any of the four is refused
MissingAllMandatory(t) ==
    /\ "Mr" \notin Range(t) /\ "Mrs" \notin Range(t)
    /\ "Miss" \notin Range(t) /\ "Master" \notin Range(t)

\* the condition of line 70
MissingMandatory(t) ==
    \/ "Mr" \notin Range(t) \/ "Mrs" \notin Range(t)
    \/ "Miss" \notin Range(t) \/ "Master" \notin Range(t)

\* mutant: Ms is taken for Mrs
CategoryMsIsMrs(x, t) ==
    IF x \in {"Mr"} THEN "Mr"
    ELSE IF x \in {"Mrs", "Mme", "Ms"} THEN "Mrs"
    ELSE IF x \in {"Miss", "Mlle"} THEN "Miss"
    ELSE IF x \in {"Master"} THEN "Master"
    ELSE IF x \in {"Dr"} /\ "Dr" \in Range(t) THEN "Dr"
    ELSE IF x \in {"Capt", "Major", "Col"} /\ "Military" \in Range(t) THEN "Military"
    ELSE IF x \in {"Sir", "Count", "Countess"} /\ "Royal" \in Range(t) THEN "Royal"
    ELSE "Rare"

\* the branch _mapper takes for the extracted word x, lines 73-88; a NaN is
\* in none of the lists and takes the last branch
Category(x, t) ==
    IF x \in {"Mr"} THEN "Mr"
    ELSE IF x \in {"Mrs", "Mme"} THEN "Mrs"
    ELSE IF x \in {"Miss", "Ms", "Mlle"} THEN "Miss"
    ELSE IF x \in {"Master"} THEN "Master"
    ELSE IF x \in {"Dr"} /\ "Dr" \in Range(t) THEN "Dr"
    ELSE IF x \in {"Capt", "Major", "Col"} /\ "Military" \in Range(t) THEN "Military"
    ELSE IF x \in {"Sir", "Count", "Countess"} /\ "Royal" \in Range(t) THEN "Royal"
    ELSE "Rare"

\* titles.index(...) raises ValueError for a category the list lacks
MapperRaises(x, t) == Category(x, t) \notin Range(t)

\* _mapper(x), lines 72-88
Mapper(x, t) == Index(t, Category(x, t))

\* extract_title, lines 66-89: the default list or a warning, the check of
\* the four mandatory titles, then the mapping of every row. The table is
\* not written to.
ExtractTitle ==
    /\ tpc = "call"
    /\ warned' = (titles # None)
    /\ LET t == IF titles = None THEN DefaultTitles ELSE titles
       IN  IF MissingMandatory(t)
           THEN tpc' = "Exception" /\ title' = title
           ELSE IF \E r \in TitleRows : MapperRaises(Extract(names[r]), t)
           THEN tpc' = "ValueError" /\ title' = title
           ELSE /\ tpc' = "done"
                /\ title' = [r \in TitleRows |-> Mapper(Extract(names[r]), t)]
    /\ UNCHANGED <<names, titles, names_old>>
    /\ UNCHANGED notTitle

TitleInit ==
    /\ names \in [TitleRows -> Names]
    /\ titles \in TitleLists \cup {None}
    /\ tpc = "call"
    /\ title = NoColumn
    /\ warned = FALSE
    /\ names_old = names
    /\ SelectIdle /\ RatesIdle /\ SquashIdle /\ OthersIdle

TitleNext == ExtractTitle

(***************************************************************************)
(* titanic.py: FamilyPredictor.                                            *)
(*                                                                         *)
(* A name "Smith, Mrs. John (Anne Jones)" is the record of its last name,  *)
(* Smith, and of the name that ends its parentheses, Jones, or "NaN".      *)
(***************************************************************************)
LastNames == {"Smith", "Jones"}
Fares == {"7.25", "8.05", "NaN"}

FamilyNames == [last : LastNames, maiden : {"Jones", "NaN"}]

\* str.split(x, ",")[0], line 412
SplitComma(name) == name.last

\* Name.str.extract("([A-Za-z'-]+)\\)$"), line 414; the last names of the
\* model have no hyphen, so that line 415 fills nothing
SecondaryLastname(name) == name.maiden

\* FamilyPredictor.__init__, lines 407-424: the arguments are stored and the
\* columns Lastname and SecondaryLastname are added; without a filler the
\* default is built with pd.Series (lines 418, 420), and the module does not
\* import pandas.
NewFamilyPredictor ==
    /\ fpc = "new"
    /\ fdata' = [fdata EXCEPT
          !.Lastname = [r \in Rows |-> SplitComma(fdata.Name[r])],
          !.SecondaryLastname = [r \in Rows |-> SecondaryLastname(fdata.Name[r])]]
    /\ fpc' = IF predictor.filler = NoFiller THEN "NameError" ELSE "ready"
    /\ UNCHANGED predictor
    /\ UNCHANGED notFam

\* FamilyPredictor._fill_family_ids, lines 316-328: its first statement is
\* self.families = pd.DataFrame(...) (line 317), and pd is not defined:
\* NameError, in every mode, before the Family column is added.
FillFamilyIds ==
    /\ fpc = "ready"
    /\ fpc' = "NameError"
    /\ UNCHANGED <<fdata, predictor>>
    /\ UNCHANGED notFam

Predictors ==
    [simplified : BOOLEAN, use_fare : BOOLEAN,
     fill_if_not_any_survived : BOOLEAN, filler : Fillers \cup {NoFiller}]

FamInit ==
    /\ predictor \in Predictors
    /\ \E nm \in [Rows -> FamilyNames], fare \in [Rows -> Fares] :
          fdata = [PassengerId |-> [i \in Rows |-> i], Name |-> nm,
                   Fare |-> fare, Lastname |-> NoColumn,
                   SecondaryLastname |-> NoColumn, Family |-> NoColumn]
    /\ fpc = "new"
    /\ SelectIdle /\ RatesIdle /\ SquashIdle /\ TitleIdle /\ SumIdle

FamNext ==
    \/ NewFamilyPredictor
    \/ FillFamilyIds

(***************************************************************************)
(* select_features.py: squash_rare.                                        *)
(***************************************************************************)
\* data[colname].value_counts()[x]: the number of rows that hold x
ValueCounts(col, x) == Cardinality({j \in SqRows : col[j] = x})

\* mutant: a category met exactly threshold times is rare too
RaresInclusive(col, x) == ValueCounts(col, x) <= threshold

\* rares[x], line 210
Rares(col, x) == ValueCounts(col, x) < threshold

\* squash_rare, lines 210-211. value_counts() leaves the missing values out,
\* so rares[x] raises KeyError for a row that holds one, before the column
\* is assigned.
SquashRare ==
    /\ sqpc = "call"
    /\ IF \E i \in SqRows : frame.col[i] = "NaN"
       THEN /\ sqpc' = "KeyError"
            /\ frame' = frame
       ELSE /\ sqpc' = "done"
            /\ frame' = [frame EXCEPT !.col =
                  [i \in SqRows |->
                      IF Rares(frame.col, frame.col[i]) THEN rare_val
                      ELSE frame.col[i]]]
    /\ UNCHANGED <<threshold, rare_val, frame_old>>
    /\ UNCHANGED notSquash

SquashInit ==
    /\ \E c \in [SqRows -> Categories \cup {"Rare", "NaN"}] :
          frame = [col |-> c, other |-> [i \in SqRows |-> i]]
    /\ threshold \in 0..MaxThreshold
    /\ rare_val \in {"Rare", "x"}
    /\ sqpc = "call"
    /\ frame_old = frame
    /\ SelectIdle /\ RatesIdle /\ TitleIdle /\ OthersIdle

SquashNext == SquashRare

(***************************************************************************)
(* select_features.py: SumDiffTransformer.                                 *)
(*                                                                         *)
(* A matrix is a list of cells for each row; column j of numpy is the      *)
(* cell j + 1 of the list.                                                 *)
(***************************************************************************)
\* the rows and the values of the matrix
SdRows == {1, 2}
Cells == {-1, 0, 1}

\* X.shape[1]
Shape1(M) == Len(M[CHOOSE r \in SdRows : TRUE])

\* np.zeros([X.shape[0], k]), line 230
Zeros(k) == [r \in SdRows |-> [c \in 1..k |-> 0]]

\* fit_transform, inherited from TransformerMixin: fit (lines 225-226) returns
\* self and transform (lines 229-238) is called. The first pass of the outer
\* loop evaluates X_old.shape[1] (line 232), and no X_old is defined in the
\* function or in the module: NameError. A matrix without columns never
\* enters the loop, and the zeros of line 230 are returned.
Transform ==
    /\ sdpc = "call"
    /\ IF Shape1(X) > 0
       THEN sdpc' = "NameError" /\ X_new' = X_new
       ELSE sdpc' = "done" /\ X_new' = Zeros(Shape1(X) * Shape1(X))
    /\ UNCHANGED X
    /\ UNCHANGED notSum

SumInit ==
    /\ \E k \in 0..MaxCols : X \in [SdRows -> [1..k -> Cells]]
    /\ X_new = <<>>
    /\ sdpc = "call"
    /\ SelectIdle /\ RatesIdle /\ SquashIdle /\ TitleIdle /\ FamIdle

SumNext == Transform

(***************************************************************************)
(* select_features_ascending and select_features_descending.               *)
(***************************************************************************)
\* mutant: the starting features are scored first, as the full table is in
\* the descending selector
EnterAscendingWithBaseline ==
    /\ pc = "call" /\ alg = "asc"
    /\ selected_features' = start
    /\ \E r \in CrossValidate(Range(start)) :
          /\ score' = Remember(Range(start), r)
          /\ IF r.kind = "raise"
             THEN pc' = "raised" /\ UNCHANGED best_score
             ELSE pc' = "for_n" /\ best_score' = <<r>>
    /\ best_features' = None
    /\ n' = 0 /\ todo' = {} /\ seen' = {} /\ tie' = FALSE
    /\ UNCHANGED <<alg, start, prev, target>>
    /\ UNCHANGED notSel

\* select_features_ascending, lines 57-62: the selection starts as the
\* starting features, and nothing has been scored
EnterAscending ==
    /\ pc = "call" /\ alg = "asc"
    /\ selected_features' = start
    /\ best_score' = NoScore
    /\ best_features' = None
    /\ n' = 0 /\ todo' = {} /\ seen' = {} /\ tie' = FALSE
    /\ pc' = "for_n"
    /\ UNCHANGED <<score, alg, start, prev, target>>
    /\ UNCHANGED notSel

\* mutant: the full table is not scored first, as in the ascending selector
EnterDescendingNoBaseline ==
    /\ pc = "call" /\ alg = "desc"
    /\ best_score' = NoScore
    /\ selected_features' = Columns
    /\ best_features' = None
    /\ n' = 0 /\ todo' = {} /\ seen' = {} /\ tie' = FALSE
    /\ pc' = "for_n"
    /\ UNCHANGED <<score, alg, start, prev, target>>
    /\ UNCHANGED notSel

\* select_features_descending, lines 135-148: the selection starts as every
\* column, and its score is the first best score
EnterDescending ==
    /\ pc = "call" /\ alg = "desc"
    /\ selected_features' = Columns
    /\ \E r \in CrossValidate(Features) :
          /\ score' = Remember(Features, r)
          /\ IF r.kind = "raise"
             THEN pc' = "raised" /\ UNCHANGED best_score
             ELSE pc' = "for_n" /\ best_score' = <<r>>
    /\ best_features' = None
    /\ n' = 0 /\ todo' = {} /\ seen' = {} /\ tie' = FALSE
    /\ UNCHANGED <<alg, start, prev, target>>
    /\ UNCHANGED notSel

\* mutant: the selected features are not taken out of the candidates
CandidatesAll == Features

\* the set the inner loop iterates: the unselected columns (line 65), or the
\* selected ones (line 151)
Candidates ==
    IF alg = "asc" THEN Features \ Range(selected_features)
    ELSE Range(selected_features)

\* `for n in range(0, len(all_features))`: one more round, or the loop is over
\* and the function returns
NextRound ==
    /\ pc = "for_n"
    /\ IF n < Len(Columns)
       THEN /\ best_features' = None
            /\ todo' = Candidates
            /\ seen' = {}
            /\ pc' = "for_f"
       ELSE /\ pc' = "done"
            /\ UNCHANGED <<best_features, todo, seen>>
    /\ UNCHANGED <<score, alg, start, selected_features, best_score, n, tie, prev, target>>
    /\ UNCHANGED notSel

\* try_features: selected_features + [f] (line 66), or the list of
\* set(selected_features) - set([f]) in whatever order the set gives (line 152)
TryFeatures(f) ==
    IF alg = "asc" THEN {Append(selected_features, f)}
    ELSE Perms(Range(selected_features) \ {f})

\* one pass of the inner loop's body, for the candidate f: the set is
\* iterated in no defined order, so f is any candidate not visited yet
Try(f) ==
    /\ pc = "for_f" /\ f \in todo
    /\ \E r \in CrossValidate(Range(CHOOSE t \in TryFeatures(f) : TRUE)) :
          /\ score' = Remember(Range(CHOOSE t \in TryFeatures(f) : TRUE), r)
          /\ IF r.kind = "raise"
             THEN /\ pc' = "raised"
                  /\ UNCHANGED <<best_features, best_score, todo, seen, tie>>
             ELSE /\ pc' = pc
                  /\ todo' = todo \ {f}
                  /\ seen' = seen \cup {r}
                  /\ tie' = (tie \/ r \in seen)
                  /\ IF Better(r, best_score)
                     THEN /\ best_features' \in TryFeatures(f)
                          /\ best_score' = <<r>>
                     ELSE UNCHANGED <<best_features, best_score>>
    /\ UNCHANGED <<alg, start, selected_features, n, prev, target>>
    /\ UNCHANGED notSel

\* lines 86-96 and 172-182: the round's best list becomes the selection, or
\* the loop breaks and the function returns
EndRound ==
    /\ pc = "for_f" /\ todo = {}
    /\ IF Truthy(best_features)
       THEN /\ selected_features' = best_features
            /\ n' = n + 1
            /\ pc' = "for_n"
       ELSE /\ pc' = "done"
            /\ UNCHANGED <<selected_features, n>>
    /\ UNCHANGED <<score, alg, start, best_features, best_score, todo, seen, tie, prev, target>>
    /\ UNCHANGED notSel

\* the caller calls the same selector again with the same arguments
Repeat ==
    /\ pc = "done" /\ prev = NoCall
    /\ prev' = [alg |-> alg, start |-> start,
                result |-> selected_features, tie |-> tie]
    /\ pc' = "call"
    /\ UNCHANGED <<score, alg, start, selected_features, best_features,
                   best_score, n, todo, seen, tie, target>>
    /\ UNCHANGED notSel

SelectNext ==
    \/ EnterAscending
    \/ EnterDescending
    \/ NextRound
    \/ \E f \in Features : Try(f)
    \/ EndRound
    \/ Repeat

\* one call, from its entry to its return
CallNext ==
    \/ EnterAscending
    \/ EnterDescending
    \/ NextRound
    \/ \E f \in Features : Try(f)
    \/ EndRound

\* a call of either selector on a table whose scores are not known yet
SelectInit ==
    /\ score = [T \in SUBSET Features |-> NotScored]
    /\ alg \in {"asc", "desc"}
    /\ start \in IF alg = "asc" THEN ListsUpTo(Features, MaxStart) ELSE {<<>>}
    /\ pc = "call"
    /\ selected_features = <<>>
    /\ best_features = None
    /\ best_score = NoScore
    /\ n = 0 /\ todo = {} /\ seen = {} /\ tie = FALSE
    /\ prev = NoCall
    /\ target = Unknown
    /\ RatesIdle /\ SquashIdle /\ TitleIdle /\ OthersIdle

\* a call of either selector on a table built as in
\* tests/test_select_features.py: y is computed from the columns `target`
\* alone (A + C + E there), and the columns are independent random numbers.
\* The selectors never read how y was built, and the scores are whatever
\* cross_validate gives on such a table.
LinearInit ==
    /\ target \in SUBSET Features
    /\ score = [T \in SUBSET Features |-> NotScored]
    /\ alg \in {"asc", "desc"}
    /\ start \in IF alg = "asc" THEN ListsUpTo(Features, MaxStart) ELSE {<<>>}
    /\ pc = "call"
    /\ selected_features = <<>>
    /\ best_features = None
    /\ best_score = NoScore
    /\ n = 0 /\ todo = {} /\ seen = {} /\ tie = FALSE
    /\ prev = NoCall
    /\ RatesIdle /\ SquashIdle /\ TitleIdle /\ OthersIdle

SpecSelect == SelectInit /\ [][SelectNext]_vars

\* both kinds of table
TablesInit == SelectInit \/ LinearInit

SpecTables == TablesInit /\ [][CallNext]_vars

\* One call that runs on: the interpreter takes the next step of the loops
\* as long as there is one.
SpecTerminate == SelectInit /\ [][CallNext]_vars /\ WF_vars(CallNext)

SpecRates == RatesInit /\ [][RatesNext]_vars

SpecRefill == RatesInit /\ [][RefillNext]_vars

SpecSquash == SquashInit /\ [][SquashNext]_vars

SpecTitle == TitleInit /\ [][TitleNext]_vars

SpecSumDiff == SumInit /\ [][SumNext]_vars

SpecFamily == FamInit /\ [][FamNext]_vars

(***************************************************************************)
(* Properties of the selectors.                                            *)
(***************************************************************************)
Scored(T) == score[T] # NotScored

IsNum(T) == Scored(T) /\ score[T][1].kind = "num"

Mean(T) == score[T][1].mean

Selected == Range(selected_features)

IsPrefix(s, t) == Len(s) <= Len(t) /\ \A i \in 1..Len(s) : s[i] = t[i]

NoRepeat(s) == \A i, j \in 1..Len(s) : s[i] = s[j] => i = j

\* both scores are numbers, and that of T is the greater
Greater(T, U) == IsNum(T) /\ IsNum(U) /\ Mean(T) > Mean(U)

\* the score of T is a number above that of U, or a number where U has none
Improves(T, U) == IsNum(T) /\ (IsNum(U) => Mean(T) > Mean(U))

\* no evaluation gave NaN
NoNaN == \A T \in SUBSET Features : Scored(T) => score[T][1].kind # "nan"

\* The score functions of C4: a column of S added raises the score, and no
\* other column added does.
AddingHelpsExactly(f, S) ==
    \A T \in SUBSET Features : \A c \in Features \ T :
        IF c \in S THEN f[T \cup {c}] > f[T] ELSE f[T \cup {c}] <= f[T]

\* The score functions of C8: a column outside S removed raises the score,
\* and a column of S removed lowers it.
RemovingHelpsExactly(f, S) ==
    \A T \in SUBSET Features : \A c \in T :
        IF c \in S THEN f[T \ {c}] < f[T] ELSE f[T \ {c}] > f[T]

\* the column sets not evaluated with a number
Unmeasured == {T \in SUBSET Features : ~IsNum(T)}

\* the score functions that give the numbers measured so far; the empty
\* column list, which an estimator may be unable to fit, may have been
\* measured as NaN or as an exception
Tables ==
    IF \E T \in SUBSET Features \ {{}} : Scored(T) /\ ~IsNum(T) THEN {}
    ELSE {[T \in SUBSET Features |-> IF IsNum(T) THEN Mean(T) ELSE h[T]] :
             h \in [Unmeasured -> 0..MaxScore]}

\* V is U with columns of S added and columns outside S removed: a score
\* function of C4 (w = 0) or of C8 (w = 1) is greater on V than on U by
\* Gap(U, V, w) at least
Above(U, V, S) == U \cap S \subseteq V /\ V \ U \subseteq S

Gap(U, V, w) == Cardinality(V \ U) + w * Cardinality(U \ V)

Least(T) == IF IsNum(T) THEN Mean(T) ELSE 0

Most(T) == IF IsNum(T) THEN Mean(T) ELSE MaxScore

\* The numbers measured so far are those of a score function of C4 (w = 0)
\* or of C8 (w = 1) for the columns S. The function's values are chained
\* by inequalities along the column sets, so one exists exactly when no
\* chain asks for more room than the measured numbers and the range leave.
MeasuredFits(S, w) ==
    /\ \A T \in SUBSET Features \ {{}} : Scored(T) => IsNum(T)
    /\ \A U, V \in SUBSET Features :
          Above(U, V, S) => Least(U) + Gap(U, V, w) <= Most(V)

\* the hypothesis of C4 and of C5 about the table
Additive == target # Unknown /\ MeasuredFits(target, 0)

\* the hypothesis of C8 about the table
EnoughMargin == target # Unknown /\ MeasuredFits(target, 1)

\* the call has no starting features
Plain == alg = "desc" \/ start = <<>>

\* MeasuredFits says what it is meant to say: when a call without starting
\* features is over, it holds exactly when a score function of the kind
\* gives the numbers measured
MeasuredFitsIsExact ==
    (pc \in {"done", "raised"} /\ Plain /\ target # Unknown) =>
        /\ MeasuredFits(target, 0) <=>
              \E f \in Tables : AddingHelpsExactly(f, target)
        /\ MeasuredFits(target, 1) <=>
              \E f \in Tables : RemovingHelpsExactly(f, target)

\* C2: when select_features_ascending returns, every unselected column has
\* been scored together with the returned list, and none of them improves
\* on the score of the returned list.
C2_AscendingStopsWhenNothingImproves ==
    (pc = "done" /\ alg = "asc") =>
        \A f \in Features \ Selected :
            /\ Scored(Selected \cup {f})
            /\ ~Improves(Selected \cup {f}, Selected)

\* the part of C2 that holds: when the returned list scored a number, no
\* unselected column scores higher with it
C2_StopsAtANumber ==
    (pc = "done" /\ alg = "asc" /\ IsNum(Selected)) =>
        \A f \in Features \ Selected :
            /\ Scored(Selected \cup {f})
            /\ IsNum(Selected \cup {f}) =>
                  Mean(Selected \cup {f}) <= Mean(Selected)

\* the call returned one column that scored NaN, although it scores a
\* number with each of the others
C2_NaNWitness ==
    /\ pc = "done" /\ alg = "asc" /\ prev = NoCall /\ start = <<>>
    /\ Len(selected_features) = 1 /\ Scored(Selected) /\ ~IsNum(Selected)
    /\ \A f \in Features \ Selected : IsNum(Selected \cup {f})

\* C3: a round of select_features_ascending that extends the selection
\* appends exactly one column, an unselected one, whose score with the
\* selection is a number and the highest of the scores of all unselected
\* columns.
C3_AscendingAppendsTheBest ==
    [][(alg = "asc" /\ pc = "for_f" /\ selected_features' # selected_features) =>
         \E f \in Features \ Selected :
            /\ selected_features' = Append(selected_features, f)
            /\ IsNum(Selected \cup {f})
            /\ \A g \in Features \ Selected :
                  /\ Scored(Selected \cup {g})
                  /\ IsNum(Selected \cup {g}) =>
                        Mean(Selected \cup {f}) >= Mean(Selected \cup {g})]_vars

\* the part of C3 that holds: a column appended with a number as its score
\* has the highest of the numbers scored in the round
C3_AppendsTheBestNumber ==
    [][(alg = "asc" /\ pc = "for_f" /\ selected_features' # selected_features
        /\ IsNum(Range(selected_features'))) =>
         \E f \in Features \ Selected :
            /\ selected_features' = Append(selected_features, f)
            /\ \A g \in Features \ Selected :
                  /\ Scored(Selected \cup {g})
                  /\ IsNum(Selected \cup {g}) =>
                        Mean(Selected \cup {f}) >= Mean(Selected \cup {g})]_vars

\* the first round appended a column that scored NaN, another column
\* having scored a number
C3_NaNWitness ==
    /\ alg = "asc" /\ pc = "for_n" /\ n = 1 /\ start = <<>> /\ prev = NoCall
    /\ Scored(Selected) /\ ~IsNum(Selected)
    /\ \E g \in Features \ Selected : IsNum({g})

\* C5: in select_features_ascending the selection and the round's best list
\* always begin with starting_features in the given order, a starting
\* feature is never a candidate, no feature is in the selection twice, and
\* the selection is the starting features followed by one feature per
\* completed round. On a table whose target is built from the columns S,
\* not all of them among the starting features, the result is the starting
\* features and S.
C5_StartingFeaturesStay ==
    (alg = "asc" /\ pc # "call") =>
        /\ IsPrefix(start, selected_features)
        /\ Len(selected_features) = Len(start) + n
        /\ NoRepeat(selected_features)
        /\ (pc = "for_f" => todo \cap Range(start) = {})
        /\ (pc = "for_f" /\ best_features # None =>
               /\ IsPrefix(selected_features, best_features)
               /\ Len(best_features) = Len(selected_features) + 1
               /\ best_features[Len(best_features)] \notin Selected)
        /\ (pc = "done" /\ Additive /\ ~(target \subseteq Range(start)) =>
               Selected = Range(start) \cup target)

C5_Witness ==
    /\ alg = "asc" /\ pc = "done" /\ prev = NoCall
    /\ Len(start) = 1 /\ target # Unknown /\ target \cap Range(start) = {}
    /\ Cardinality(target) = 2
    /\ selected_features[1] = start[1]
    /\ Selected = Range(start) \cup target
    /\ \E f \in Tables : AddingHelpsExactly(f, target)

\* C4, as stated: on a table whose target is built from the columns S,
\* select_features_ascending called without starting features returns
\* exactly S.
C4_Original ==
    (pc = "done" /\ alg = "asc" /\ start = <<>> /\ Additive) => Selected = target

\* C4, amended: the same for every S that is not empty.
C4_AscendingFindsTheSubset ==
    (pc = "done" /\ alg = "asc" /\ start = <<>> /\ Additive /\ target # {}) =>
        Selected = target

C4_Witness ==
    /\ pc = "done" /\ alg = "asc" /\ start = <<>>
    /\ Cardinality(target) = 2 /\ Selected = target
    /\ \E f \in Tables : AddingHelpsExactly(f, target)

\* C6, as stated: every round of select_features_descending that was run
\* with a feature left removes one feature, the one whose removal scores
\* highest.
C6_Original ==
    [][(alg = "desc" /\ pc = "for_f" /\ todo = {} /\ pc' # "for_f"
        /\ selected_features # <<>>) =>
         \E f \in Selected :
            /\ Range(selected_features') = Selected \ {f}
            /\ \A g \in Selected : IsNum(Selected \ {g}) /\ IsNum(Selected \ {f})
                  /\ Mean(Selected \ {f}) >= Mean(Selected \ {g})]_vars

\* C6, amended: select_features_descending starts from all the columns, and
\* every round that changes the selection removes exactly one feature, the
\* one whose removal scores highest among the features then selected.
C6_DescendingRemovesTheBest ==
    [][/\ (alg = "desc" /\ pc = "call" /\ pc' # "call") =>
             selected_features' = Columns
       /\ (alg = "desc" /\ pc = "for_f" /\ selected_features' # selected_features) =>
             \E f \in Selected :
                /\ Range(selected_features') = Selected \ {f}
                /\ Len(selected_features') = Len(selected_features) - 1
                /\ IsNum(Selected \ {f})
                /\ \A g \in Selected :
                      /\ Scored(Selected \ {g})
                      /\ IsNum(Selected \ {g}) =>
                            Mean(Selected \ {f}) >= Mean(Selected \ {g})]_vars

C6_Witness ==
    /\ alg = "desc" /\ pc = "for_n" /\ n = 2 /\ prev = NoCall /\ ~tie
    /\ Len(selected_features) = 1

\* C7: when select_features_descending returns, no feature of the returned
\* list can be removed with a strictly higher score, and a round changes the
\* selection only to a list whose score is strictly above the best score
\* before the round.
C7_DescendingStopsWhenNoRemovalHelps ==
    (pc = "done" /\ alg = "desc") =>
        \A f \in Selected :
            /\ Scored(Selected \ {f})
            /\ ~Improves(Selected \ {f}, Selected)

\* the part of C7 that holds: a removal is made only for a strictly higher
\* score than the best one before
C7_RemovalsStrictlyImprove ==
    [][(alg = "desc" /\ pc = "for_f" /\ selected_features' # selected_features) =>
          /\ Greater(Range(selected_features'), Selected)
          /\ Greater(Range(selected_features'), Features)]_vars

\* C8, as stated: with enough margin, select_features_descending returns
\* exactly S, and so does select_features_ascending on the same table.
C8_Original ==
    (pc = "done" /\ Plain /\ EnoughMargin) => Selected = target

\* C8, amended: the same for every S that is not empty, whenever the
\* selector returns; select_features_ascending always returns, and so does
\* select_features_descending when S has two columns or more; when S is one
\* column it scores the empty column list before it can return.
C8_DescendingFindsTheSubset ==
    (Plain /\ EnoughMargin /\ target # {}) =>
        /\ pc = "done" => Selected = target
        /\ pc = "raised" =>
              alg = "desc" /\ Cardinality(target) = 1 /\ Selected = target

C8_Witness ==
    /\ alg = "desc" /\ pc = "done"
    /\ Cardinality(target) = 2 /\ Selected = target
    /\ \E f \in Tables : RemovingHelpsExactly(f, target)

\* the ascending selector on a table of the same kind
C8_AscendingWitness ==
    /\ alg = "asc" /\ start = <<>> /\ pc = "done"
    /\ Cardinality(target) = 2 /\ Selected = target
    /\ \E f \in Tables : RemovingHelpsExactly(f, target)

\* C9: two calls of the same selector with the same arguments on the same
\* table return the same set of features, whatever the order in which the
\* candidates are visited, when in neither call two candidates of one round
\* had the same score.
C9_OrderMattersOnlyOnTies ==
    (pc = "done" /\ prev # NoCall /\ ~tie /\ ~prev.tie) =>
        Selected = Range(prev.result)

C9_Witness ==
    /\ pc = "done" /\ prev # NoCall /\ ~tie /\ ~prev.tie
    /\ Len(selected_features) = Len(start) + 2

\* the part of C9 that holds: the same, when no evaluation gave NaN
C9_OrderMattersOnlyOnTiesOfNumbers ==
    (pc = "done" /\ prev # NoCall /\ ~tie /\ ~prev.tie /\ NoNaN) =>
        Selected = Range(prev.result)

\* with a tie, two orders can give two results
C9_TieWitness ==
    /\ pc = "done" /\ prev # NoCall /\ tie /\ prev.tie
    /\ Selected # Range(prev.result)

\* the features that are in one of the lists and not in the other
Changed(s, t) == (Range(s) \ Range(t)) \cup (Range(t) \ Range(s))

\* the call is over: it returned or raised
Over == pc \in {"done", "raised"}

\* C24, the rounds: a round is entered less than Len(Columns) rounds after
\* the first, with every candidate still to be visited; a pass of the inner
\* loop visits one candidate not visited yet; the round ends when none is
\* left, and either changes the selection by exactly one feature or is the
\* last one.
RoundsAreBounded ==
    /\ (pc = "for_n" /\ pc' = "for_f") =>
          /\ n < Len(Columns)
          /\ todo' = IF alg = "asc" THEN Features \ Selected ELSE Selected
    /\ (pc = "for_f" /\ pc' = "for_f") =>
          /\ todo' \subseteq todo
          /\ Cardinality(todo') = Cardinality(todo) - 1
    /\ (pc = "for_f" /\ pc' = "for_n") =>
          /\ todo = {}
          /\ Cardinality(Changed(selected_features, selected_features')) = 1
          /\ n' = n + 1
    /\ (pc = "for_f" /\ pc' = "done") =>
          /\ todo = {}
          /\ selected_features' = selected_features

\* C24: both selectors terminate, whatever the scores: the call is over
\* after a finite number of steps, having run Len(Columns) rounds at most,
\* each of which evaluates each of its candidates once and, unless it is the
\* last, changes the selection by exactly one feature.
C24_SelectorsTerminate ==
    /\ <>Over
    /\ [](n <= Len(Columns))
    /\ [][RoundsAreBounded]_vars

\* a descending call that ran as many rounds as it can and returned
C24_Witness ==
    /\ pc = "done" /\ alg = "desc" /\ n = Len(Columns) - 1
    /\ Len(selected_features) = 1

\* an ascending call that selected every column
C24_AscendingWitness ==
    /\ pc = "done" /\ alg = "asc" /\ start = <<>> /\ n = Len(Columns)
    /\ Selected = Features

\* C25: select_features_ascending does not score the selection it starts
\* from, so that its first round adds a feature whenever a column is left
\* to add, whatever the scores: the result has one feature more than the
\* starting features at least, and is never empty.
C25_FirstRoundAlwaysAdds ==
    /\ alg = "asc" => ~Scored(Range(start))
    /\ (alg = "asc" /\ pc = "for_n" /\ n = 0) => best_score = NoScore
    /\ (alg = "asc" /\ pc = "done") =>
          /\ selected_features # <<>>
          /\ Features \ Range(start) # {} =>
                Len(selected_features) >= Len(start) + 1

\* a feature was added to the starting feature with the lowest score there
\* is, the starting feature alone not having been scored
C25_Witness ==
    /\ alg = "asc" /\ pc = "done" /\ target # Unknown
    /\ Len(start) = 1 /\ Len(selected_features) = 2
    /\ ~Scored(Range(start)) /\ IsNum(Selected) /\ Mean(Selected) = 0

\* the first feature is added with the lowest score there is
C25_LowestScoreWitness ==
    /\ alg = "asc" /\ pc = "done" /\ target = Unknown /\ start = <<>>
    /\ Len(selected_features) = 1 /\ IsNum(Selected) /\ Mean(Selected) = 0

\* the first feature is added although it scored NaN
C25_NaNWitness ==
    /\ alg = "asc" /\ pc = "done" /\ start = <<>>
    /\ Len(selected_features) = 1 /\ Scored(Selected) /\ ~IsNum(Selected)

\* the sets select_features_ascending accepted in the rounds before: the
\* starting features and one, two, ... of the features added since
AcceptedAscending ==
    {Range(SubSeq(selected_features, 1, k)) :
        k \in (Len(start) + 1)..Len(selected_features)}

\* C26, one step: a round that changes the selection does so with a score
\* strictly above that of every set accepted before and, in the descending
\* selector, above that of the full table; within a round the best score
\* changes to a strictly greater one only.
BestScoreIncreases ==
    /\ (pc = "for_f" /\ pc' = "for_n") =>
          /\ best_score = <<score[Range(selected_features')][1]>>
          /\ Scored(Selected) => Greater(Range(selected_features'), Selected)
          /\ alg = "asc" =>
                \A T \in AcceptedAscending : Greater(Range(selected_features'), T)
          /\ alg = "desc" => Greater(Range(selected_features'), Features)
    /\ (pc = "for_f" /\ pc' = "for_f" /\ best_score # NoScore
        /\ best_features' # best_features) =>
          /\ best_score[1].kind = "num" /\ best_score'[1].kind = "num"
          /\ best_score'[1].mean > best_score[1].mean

\* C26: in both selectors the best score is strictly increasing over the
\* rounds: a set is accepted only with a score strictly greater than every
\* score accepted before, and a candidate that equals the best score is not.
C26_BestScoreStrictlyIncreases == [][BestScoreIncreases]_vars

\* three rounds of the ascending selector, each with a better score, and a
\* round in which a candidate equalled the best score and was not accepted
C26_Witness ==
    /\ pc = "done" /\ alg = "asc" /\ start = <<>>
    /\ Len(selected_features) = 2
    /\ Mean(Range(SubSeq(selected_features, 1, 1))) < Mean(Selected)
    /\ \E f \in Features \ Selected :
          IsNum(Selected \cup {f}) /\ Mean(Selected \cup {f}) = Mean(Selected)

\* the descending selector removed two features, each time with a better
\* score than the full table's
C26_DescendingWitness ==
    /\ pc = "done" /\ alg = "desc" /\ Len(selected_features) = 1
    /\ Mean(Selected) > Mean(Features) + 1

(***************************************************************************)
(* Properties of the rate fillers.                                         *)
(***************************************************************************)
\* C1: after the caller changes the Survived value of one row and nothing
\* else, and the rates are filled again, the rate of that row is what it
\* was, in every mode of both counters.
C1_LeaveOneOut ==
    (rpc = "filled" /\ edited # 0) => RateColumn[edited] = before[edited]

\* where C1 holds: everywhere but in the non-simplified TicketCounter
C1_LeaveOneOutBeforeFallback ==
    (rpc = "filled" /\ edited # 0
     /\ (counter.kind = "cabin" \/ counter.simplified
         \/ TicketRatesRaw(data, counter)[edited] # NaNRate)) =>
        RateColumn[edited] = before[edited]

\* the other rows with the ticket of row i, and those of them with a known
\* Survived value
SameTicket(i) == {j \in Rows \ {i} : data.Ticket[j] = data.Ticket[i]}

KnownSameTicket(i) == {j \in SameTicket(i) : data.Survived[j] # "NaN"}

\* the rows of J that survived, and the rows of J with a known Survived value
Survivors(J) == {j \in J : data.Survived[j] = "1"}

Known(J) == {j \in J : data.Survived[j] # "NaN"}

\* the rows with the Pclass of row i, row i included
SameClass(i) == {j \in Rows : data.Pclass[j] = data.Pclass[i]}

\* C11: in non-simplified mode the TicketRate of a row is the number of the
\* other rows of its ticket that survived over the number of the other rows
\* of its ticket with a known outcome; when there is no such row it is the
\* mean of the known Survived values of the rows of its Pclass.
C11_NonSimplifiedTicketRate ==
    (rpc = "filled" /\ counter.kind = "ticket" /\ ~counter.simplified) =>
        \A i \in Rows :
            data.TicketRate[i] =
                IF KnownSameTicket(i) # {}
                THEN Frac(Cardinality(Survivors(SameTicket(i))),
                          Cardinality(KnownSameTicket(i)))
                ELSE Frac(Cardinality(Survivors(SameClass(i))),
                          Cardinality(Known(SameClass(i))))

\* one row takes the rate of its ticket, another one falls back to the mean
\* of its class
C11_Witness ==
    /\ rpc = "filled" /\ counter.kind = "ticket" /\ ~counter.simplified
    /\ \E i, j \in Rows :
          /\ KnownSameTicket(i) # {} /\ data.Survived[i] = "1"
          /\ data.TicketRate[i] = Zero
          /\ KnownSameTicket(j) = {} /\ data.Survived[j] = "NaN"
          /\ data.TicketRate[j] = Half

\* the ticket of row r is held by exactly 3 rows, and the two rows other than
\* r both survived
TwoOfThreeSurvived(r) ==
    /\ Cardinality(SameTicket(r)) = 2
    /\ \A j \in SameTicket(r) : data.Survived[j] = "1"

\* C12, as stated: in a ticket group of 3 rows whose two rows other than r
\* survived, the non-simplified TicketRate of r is 2/3.
C12_Original ==
    (rpc = "filled" /\ counter.kind = "ticket" /\ ~counter.simplified) =>
        \A r \in Rows : TwoOfThreeSurvived(r) => data.TicketRate[r] = Frac(2, 3)

\* C12, amended: in a ticket group of 3 rows whose two rows other than r
\* survived, the non-simplified TicketRate of r is 2/2 = 1.0, whatever the
\* Survived value of r.
C12_TwoSurvivorsGiveOne ==
    (rpc = "filled" /\ counter.kind = "ticket" /\ ~counter.simplified) =>
        \A r \in Rows : TwoOfThreeSurvived(r) => data.TicketRate[r] = Frac(2, 2)

\* the third row of such a group died
C12_Witness ==
    /\ rpc = "filled" /\ counter.kind = "ticket" /\ ~counter.simplified
    /\ \E r \in Rows :
          /\ TwoOfThreeSurvived(r) /\ data.Survived[r] = "0"
          /\ data.TicketRate[r] = One

\* the rate of lines 173-176 and 187, from the other rows of the ticket
SimplifiedExpected(i) ==
    IF KnownSameTicket(i) # {} /\ Survivors(KnownSameTicket(i)) = KnownSameTicket(i)
    THEN One
    ELSE IF KnownSameTicket(i) # {} /\ Survivors(KnownSameTicket(i)) = {}
    THEN Zero
    ELSE Half

\* C13: in simplified mode without fill_if_not_any_survived, TicketRate is 1
\* when some other row of the ticket has a known outcome and all the known
\* ones survived, 0 when some has and all the known ones died, 0.5 otherwise.
C13_SimplifiedTicketRate ==
    (rpc = "filled" /\ counter.kind = "ticket" /\ counter.simplified
     /\ ~counter.fill_if_not_any_survived) =>
        \A i \in Rows : data.TicketRate[i] = SimplifiedExpected(i)

\* a table with the three cases: all the others survived, one survived and
\* one died, nobody else on the ticket
C13_Witness ==
    /\ rpc = "filled" /\ counter.kind = "ticket" /\ counter.simplified
    /\ ~counter.fill_if_not_any_survived
    /\ \E i, j \in Rows :
          /\ Cardinality(KnownSameTicket(i)) = 2
          /\ Survivors(KnownSameTicket(i)) = KnownSameTicket(i)
          /\ data.TicketRate[i] = One
          /\ Cardinality(Survivors(KnownSameTicket(j))) = 1
          /\ Cardinality(KnownSameTicket(j)) = 2
          /\ data.TicketRate[j] = Half

\* C14: in simplified mode with fill_if_not_any_survived, TicketRate is 1
\* when another row of the ticket is known to have survived, 0 when none is
\* and one is known to have died, 0.5 otherwise.
C14_ShiftedTicketRate ==
    (rpc = "filled" /\ counter.kind = "ticket" /\ counter.simplified
     /\ counter.fill_if_not_any_survived) =>
        \A i \in Rows :
            data.TicketRate[i] =
                IF Survivors(SameTicket(i)) # {} THEN One
                ELSE IF KnownSameTicket(i) # {} THEN Zero
                ELSE Half

\* one survivor and one victim among the others give 1, and one victim and
\* a row of unknown outcome give 0
C14_Witness ==
    /\ rpc = "filled" /\ counter.kind = "ticket" /\ counter.simplified
    /\ counter.fill_if_not_any_survived
    /\ \E i, j \in Rows :
          /\ Cardinality(Survivors(SameTicket(i))) = 1
          /\ Cardinality(KnownSameTicket(i)) = 2
          /\ data.TicketRate[i] = One
          /\ Cardinality(SameTicket(j)) = 2
          /\ Cardinality(KnownSameTicket(j)) = 1
          /\ data.TicketRate[j] = Zero

\* C15: in every mode TicketCount is the number of rows with the row's
\* ticket, the row itself and the rows of unknown outcome included, and so
\* is 1 at least.
C15_TicketCount ==
    (rpc = "filled" /\ counter.kind = "ticket") =>
        \A i \in Rows :
            /\ data.TicketCount[i] = Cardinality(SameTicket(i)) + 1
            /\ data.TicketCount[i] >= 1

\* a row alone on its ticket, and a row counted with one of unknown outcome
C15_Witness ==
    /\ rpc = "filled" /\ counter.kind = "ticket"
    /\ \E i, j \in Rows :
          /\ data.TicketCount[i] = 1
          /\ data.TicketCount[j] = 2 /\ data.Survived[j] = "NaN"
          /\ KnownSameTicket(j) = {}

\* the other rows with the cabin of row i, and those of them with a known
\* Survived value; a row without a cabin shares it with nobody
SameCabin(i) ==
    IF data.Cabin[i] = "NaN" THEN {}
    ELSE {j \in Rows \ {i} : data.Cabin[j] = data.Cabin[i]}

KnownSameCabin(i) == {j \in SameCabin(i) : data.Survived[j] # "NaN"}

\* C16: with a filler passed by the caller, a row takes the filler's value
\* of that row exactly when no other row of its cabin has a known outcome (it
\* has no cabin, nobody shares its cabin, or only rows of unknown outcome
\* do); every other row takes the mean Survived of the other rows of its
\* cabin; a row without a cabin has CabinCount 0.
C16_FillerOnlyWithoutKnownOthers ==
    (rpc = "filled" /\ counter.kind = "cabin" /\ counter.filler # NoFiller) =>
        \A i \in Rows :
            /\ data.CabinRate[i] =
                   IF KnownSameCabin(i) = {} THEN counter.filler[i]
                   ELSE Frac(Cardinality(Survivors(SameCabin(i))),
                             Cardinality(KnownSameCabin(i)))
            /\ data.Cabin[i] = "NaN" => data.CabinCount[i] = 0

\* what C16 says holds in non-simplified mode; in simplified mode a row
\* whose cabin mates all survived takes 1, one whose mates all died takes 0,
\* and every other row takes the filler's value
C16_FillerInBothModes ==
    (rpc = "filled" /\ counter.kind = "cabin" /\ counter.filler # NoFiller) =>
        \A i \in Rows :
            /\ data.CabinRate[i] =
                   IF KnownSameCabin(i) = {} THEN counter.filler[i]
                   ELSE IF ~counter.simplified
                   THEN Frac(Cardinality(Survivors(SameCabin(i))),
                             Cardinality(KnownSameCabin(i)))
                   ELSE IF Survivors(SameCabin(i)) = KnownSameCabin(i) THEN One
                   ELSE IF Survivors(SameCabin(i)) = {} THEN Zero
                   ELSE counter.filler[i]
            /\ data.Cabin[i] = "NaN" => data.CabinCount[i] = 0

\* C17: a CabinCounter built without a filler is constructed without an
\* exception, and after fill_cabin_rates every row has a defined CabinRate.
C17_DefaultFillerCompletes ==
    (counter.kind = "cabin" /\ counter.filler = NoFiller) =>
        /\ rpc \in {"new", "ready", "filled"}
        /\ rpc = "filled" => \A i \in Rows : data.CabinRate[i] # NaNRate

\* the columns the counters read
Inputs(d) == <<d.PassengerId, d.Ticket, d.Cabin, d.Pclass, d.Survived>>

\* C22: a call of fill_ticket_rates or fill_cabin_rates leaves the columns
\* PassengerId, Ticket, Cabin, Pclass and Survived and the rows as they were,
\* and a second call on the same object and table gives the count and rate
\* columns the first call gave.
C22_SecondCallOverwrites ==
    [][(rpc = "ready" /\ rpc' = "filled") =>
          /\ Inputs(data') = Inputs(data)
          /\ \A col \in {"PassengerId", "Ticket", "Cabin", "Pclass", "Survived"} :
                DOMAIN data'[col] = Rows
          /\ first # NoColumn => data' = first]_vars

\* the second call of a CabinCounter is over: a cabin of two rows, and a
\* rate taken from the filler
C22_Witness ==
    /\ rpc = "filled" /\ first # NoColumn /\ counter.kind = "cabin"
    /\ data.CabinCount = first.CabinCount /\ data.CabinRate = first.CabinRate
    /\ \E i, j \in Rows :
          /\ data.CabinCount[i] = 2 /\ data.CabinRate[i] = One
          /\ data.CabinCount[j] = 0 /\ data.CabinRate[j] = counter.filler[j]

\* the same for a TicketCounter
C22_TicketWitness ==
    /\ rpc = "filled" /\ first # NoColumn /\ counter.kind = "ticket"
    /\ data.TicketCount = first.TicketCount /\ data.TicketRate = first.TicketRate
    /\ \E i \in Rows : data.TicketCount[i] = 2 /\ data.TicketRate[i] = Zero

\* the rate of row i that a non-simplified TicketCounter computes on the
\* same table before it fills the NaNs
LeaveOneOut(i) == TicketRatesRaw(data, [counter EXCEPT !.simplified = FALSE])[i]

\* a fraction <<a, b>> is defined, is 1, is 0
Defined(m) == m[2] # 0
IsOne(m) == Defined(m) /\ m[1] = m[2]
IsZero(m) == Defined(m) /\ m[1] = 0

\* C27: the simplified TicketRate (without fill_if_not_any_survived) is 1
\* exactly when the non-simplified leave-one-out fraction is defined and 1,
\* 0 exactly when it is defined and 0, and 0.5 exactly when it is undefined
\* or strictly between 0 and 1; it is always 0, 0.5 or 1.
C27_SimplifiedAgreesWithLeaveOneOut ==
    (rpc = "filled" /\ counter.kind = "ticket" /\ counter.simplified
     /\ ~counter.fill_if_not_any_survived) =>
        \A i \in Rows :
            /\ data.TicketRate[i] \in {Zero, Half, One}
            /\ data.TicketRate[i] = One <=> IsOne(LeaveOneOut(i))
            /\ data.TicketRate[i] = Zero <=> IsZero(LeaveOneOut(i))
            /\ data.TicketRate[i] = Half <=>
                  \/ ~Defined(LeaveOneOut(i))
                  \/ /\ 0 < LeaveOneOut(i)[1]
                     /\ LeaveOneOut(i)[1] < LeaveOneOut(i)[2]

\* a table with fractions strictly between 0 and 1 and one that is 1
C27_Witness ==
    /\ rpc = "filled" /\ counter.kind = "ticket" /\ counter.simplified
    /\ ~counter.fill_if_not_any_survived
    /\ \E i, j, k \in Rows :
          /\ LeaveOneOut(i) = Frac(1, 2) /\ data.TicketRate[i] = Half
          /\ LeaveOneOut(j) = One /\ data.TicketRate[j] = One
          /\ LeaveOneOut(k) = Frac(1, 2) /\ data.Survived[k] = "1"

\* an undefined fraction: the only other row of the ticket has no outcome
C27_UndefinedWitness ==
    /\ rpc = "filled" /\ counter.kind = "ticket" /\ counter.simplified
    /\ ~counter.fill_if_not_any_survived
    /\ \E i, j \in Rows :
          /\ SameTicket(i) # {} /\ ~Defined(LeaveOneOut(i))
          /\ data.TicketRate[i] = Half
          /\ IsZero(LeaveOneOut(j)) /\ data.TicketRate[j] = Zero

(***************************************************************************)
(* Properties of squash_rare.                                              *)
(***************************************************************************)
\* the number of rows of the passed table that hold the category of row i
Occurrences(i) ==
    Cardinality({j \in SqRows : frame_old.col[j] = frame_old.col[i]})

\* C10: when squash_rare returns, a row whose category occurred fewer than
\* threshold times in the column holds rare_val, a row whose category
\* occurred threshold times or more holds what it held, and the rows and the
\* other column are as they were.
C10_SquashRare ==
    sqpc = "done" =>
        /\ DOMAIN frame.col = DOMAIN frame_old.col
        /\ frame.other = frame_old.other
        /\ \A i \in SqRows :
              IF Occurrences(i) < threshold
              THEN frame.col[i] = rare_val
              ELSE frame.col[i] = frame_old.col[i]

\* a category met exactly threshold times is kept while a rarer one is
\* replaced
C10_Witness ==
    /\ sqpc = "done"
    /\ \E i, j \in SqRows :
          /\ Occurrences(i) = threshold /\ frame.col[i] = frame_old.col[i]
          /\ frame_old.col[i] # rare_val
          /\ Occurrences(j) < threshold /\ frame_old.col[j] # rare_val
          /\ frame.col[j] = rare_val

(***************************************************************************)
(* Properties of extract_title.                                            *)
(***************************************************************************)
\* the list the titles are looked up in
TitlesUsed == IF titles = None THEN DefaultTitles ELSE titles

\* the category of the title x, as the docstring and the tests give it
Expected(x) ==
    CASE x = "Mr" -> "Mr"
      [] x \in {"Mrs", "Mme"} -> "Mrs"
      [] x \in {"Miss", "Ms", "Mlle"} -> "Miss"
      [] x = "Master" -> "Master"
      [] x = "Dr" /\ "Dr" \in Range(TitlesUsed) -> "Dr"
      [] x \in {"Capt", "Major", "Col"} /\ "Military" \in Range(TitlesUsed)
            -> "Military"
      [] x \in {"Sir", "Count", "Countess"} /\ "Royal" \in Range(TitlesUsed)
            -> "Royal"
      [] OTHER -> "Rare"

\* the title of row r: the first word of the name that a dot follows
TitleOf(r) == Extract(names_old[r])

\* C18: when extract_title returns, every row holds the index in the titles
\* list of the category of its title (Mme as Mrs, Ms and Mlle as Miss, Dr,
\* the military and the royal titles as their category when the list has it,
\* every other title as Rare); with the default list that is 0 for Mr, 1 for
\* Mrs, 2 for Miss, 3 for Master and 4 for the others; the index is within
\* the list.
C18_TitleIndex ==
    tpc = "done" =>
        \A r \in TitleRows :
            /\ title[r] \in 0..(Len(TitlesUsed) - 1)
            /\ TitlesUsed[title[r] + 1] = Expected(TitleOf(r))
            /\ \A k \in 1..title[r] : TitlesUsed[k] # Expected(TitleOf(r))
            /\ titles = None =>
                  title[r] = CASE Expected(TitleOf(r)) = "Mr" -> 0
                               [] Expected(TitleOf(r)) = "Mrs" -> 1
                               [] Expected(TitleOf(r)) = "Miss" -> 2
                               [] Expected(TitleOf(r)) = "Master" -> 3
                               [] OTHER -> 4

\* a list in an order of its own, with Royal and without Dr: a countess is
\* Royal and a doctor is Rare, and Ms is Miss
C18_Witness ==
    /\ tpc = "done"
    /\ titles = <<"Rare", "Master", "Miss", "Mrs", "Mr", "Royal">>
    /\ \E r, q \in TitleRows :
          /\ TitleOf(r) = "Countess" /\ title[r] = 5
          /\ TitleOf(q) = "Dr" /\ title[q] = 0

\* the default list, and a name without a title
C18_DefaultWitness ==
    /\ tpc = "done" /\ titles = None
    /\ \E r, q \in TitleRows :
          /\ TitleOf(r) = "Ms" /\ title[r] = 2
          /\ TitleOf(q) = "NaN" /\ title[q] = 4

\* C19: a titles list passed by the caller that lacks Mr, Mrs, Miss or
\* Master makes extract_title raise its exception: no row is mapped, nothing
\* is returned and the table is as it was.
C19_MissingMandatoryRaises ==
    (tpc # "call" /\ titles # None
     /\ ~({"Mr", "Mrs", "Miss", "Master"} \subseteq Range(titles))) =>
        /\ tpc = "Exception"
        /\ title = NoColumn
        /\ names = names_old

\* a list with three of the four and Rare is refused, and so is the empty one
C19_Witness ==
    /\ tpc = "Exception"
    /\ \/ titles = <<"Mr", "Mrs", "Master", "Rare">>
       \/ titles = <<>>

\* C20: a titles list with Mr, Mrs, Miss and Master and without Rare is
\* refused by the check made before any row is mapped, whatever the names.
C20_RareIsMandatory ==
    (tpc # "call" /\ titles # None
     /\ {"Mr", "Mrs", "Miss", "Master"} \subseteq Range(titles)
     /\ "Rare" \notin Range(titles)) =>
        tpc = "Exception"

\* what happens with such a list: the call fails while it maps a row whose
\* title falls to Rare, and returns when there is no such row
C20_FailsWhileMapping ==
    (tpc # "call" /\ titles # None
     /\ {"Mr", "Mrs", "Miss", "Master"} \subseteq Range(titles)
     /\ "Rare" \notin Range(titles)) =>
        IF \E r \in TitleRows : Expected(TitleOf(r)) = "Rare"
        THEN tpc = "ValueError" /\ title = NoColumn
        ELSE tpc = "done"

(***************************************************************************)
(* Properties of SumDiffTransformer.                                       *)
(***************************************************************************)
\* C21: fit_transform returns, without an exception, a matrix with the rows
\* of X and n * n columns, whose column i * n + j is X[:, i] + X[:, j] for
\* i > j, X[:, i] - X[:, j] for i < j and X[:, i] for i = j.
C21_SumDiff ==
    sdpc # "call" =>
        /\ sdpc = "done"
        /\ DOMAIN X_new = DOMAIN X
        /\ \A r \in SdRows :
              /\ Len(X_new[r]) = Shape1(X) * Shape1(X)
              /\ \A i, j \in 0..(Shape1(X) - 1) :
                    X_new[r][i * Shape1(X) + j + 1] =
                        IF i > j THEN X[r][i + 1] + X[r][j + 1]
                        ELSE IF i < j THEN X[r][i + 1] - X[r][j + 1]
                        ELSE X[r][i + 1]

\* the only matrices the transformer returns for: those without a column
C21_ReturnsOnlyWithoutColumns ==
    /\ sdpc = "done" => Shape1(X) = 0 /\ X_new = Zeros(0)
    /\ sdpc = "NameError" => Shape1(X) > 0 /\ X_new = <<>>

(***************************************************************************)
(* Properties of FamilyPredictor.                                          *)
(***************************************************************************)
\* C23: in simplified mode with use_fare, after _fill_family_ids two rows
\* with a known Fare have the same Family id if and only if they have the
\* same Lastname and the same Fare, and every row with a known Fare has a
\* Family id.
C23_FamilyIsLastnameAndFare ==
    (predictor.simplified /\ predictor.use_fare
     /\ predictor.filler # NoFiller /\ fpc \notin {"new", "ready"}) =>
        /\ fpc = "done"
        /\ \A i, j \in {r \in Rows : fdata.Fare[r] # "NaN"} :
              /\ fdata.Family[i] # "NaN"
              /\ fdata.Family[i] = fdata.Family[j] <=>
                    (fdata.Lastname[i] = fdata.Lastname[j]
                     /\ fdata.Fare[i] = fdata.Fare[j])

\* what happens: no FamilyPredictor gets past _fill_family_ids, and the
\* table never has a Family column
C23_NoFamilyColumn ==
    /\ fpc \in {"new", "ready", "NameError"}
    /\ fdata.Family = NoColumn

====
